---- MODULE Spec2Model ----
(***************************************************************************)
(* Session lifecycle, overlap detection, code generators and validation    *)
(* keys of the flight-connect backend (routes/sessions.ts,                 *)
(* routes/validKeys.ts, routes/participants.ts and the mongoose models).   *)
(*                                                                         *)
(* Instants are whole minutes since 1970-01-01T00:00Z (the code works in   *)
(* milliseconds).  A calendar date "YYYY-MM-DD" is the tuple <<y, m, d>>,  *)
(* a time of day "HH:mm" the tuple <<h, mi>>, a month tag "YYYY-MM" the    *)
(* tuple <<y, m>>, and a short text (key, pilot name) a sequence of        *)
(* one-character strings.  An absent optional field is NoValue.            *)
(* Every request is taken to come from a caller the authentication         *)
(* middleware let through.                                                 *)
(***************************************************************************)
EXTENDS Integers, Sequences, FiniteSets, TLC

VARIABLES
    now,          \* the wall clock (new Date()), minutes since the epoch
    tz,           \* the process's local zone, minutes east of UTC
    sessions,     \* the Session collection: a set of records
    participants, \* the Participant collection: a set of records
    validKeys,    \* the ValidKey collection: a set of records
    resp,         \* the response of the handler that ran last at this instant
    pending       \* the requests in flight: each waits for its next storage call

vars == <<now, tz, sessions, participants, validKeys, resp, pending>>

NoValue == <<>>

Statuses == {"open", "closing", "closed", "completed"}

----------------------------------------------------------------------------
(* Calendar arithmetic: what Date does with an ISO date-time string.       *)

MinutesPerHour == 60
MinutesPerDay == 24 * 60

IsLeapYear(y) == (y % 4 = 0 /\ y % 100 # 0) \/ y % 400 = 0

DaysInMonth(y, m) ==
    IF m = 2 THEN (IF IsLeapYear(y) THEN 29 ELSE 28)
    ELSE IF m \in {4, 6, 9, 11} THEN 30 ELSE 31

LeapDaysBefore(y) == ((y - 1) \div 4) - ((y - 1) \div 100) + ((y - 1) \div 400)

\* days from 1970-01-01 to the first day of year y
DaysBeforeYear(y) == 365 * (y - 1970) + LeapDaysBefore(y) - LeapDaysBefore(1970)

RECURSIVE DaysBeforeMonth(_, _)
DaysBeforeMonth(y, m) ==
    IF m = 1 THEN 0 ELSE DaysBeforeMonth(y, m - 1) + DaysInMonth(y, m - 1)

\* the years the modelled clock can show, and the year after them
ClockYears == 2024 .. 2025
CalendarYears == 2024 .. 2026

\* days from 1970-01-01 to the first day of each month
DaysBefore ==
    [y \in CalendarYears, m \in 1 .. 12 |-> DaysBeforeYear(y) + DaysBeforeMonth(y, m)]

\* new Date(`${date}T${time}Z`).getTime()
ParseUTC(date, time) ==
    (DaysBefore[date[1], date[2]] + (date[3] - 1)) * MinutesPerDay
    + time[1] * MinutesPerHour + time[2]

\* new Date(`${date}T${time}`).getTime(): no zone designator, so the string
\* is read in the local zone of the process
ParseLocal(date, time) == ParseUTC(date, time) - tz

MonthStart(y, m) == DaysBefore[y, m] * MinutesPerDay

NextMonthStart(y, m) == IF m = 12 THEN MonthStart(y + 1, 1) ELSE MonthStart(y, m + 1)

\* <<getFullYear(), getMonth() + 1>> of the instant t, in the local zone
LocalYearMonth(t) ==
    CHOOSE ym \in ClockYears \X (1 .. 12) :
        /\ MonthStart(ym[1], ym[2]) <= t + tz
        /\ t + tz < NextMonthStart(ym[1], ym[2])

----------------------------------------------------------------------------
(* Session status engine.                                                  *)

ValidTime(t) == t[1] \in 0 .. 23 /\ t[2] \in 0 .. 59

sessionStartDateTime(session) == ParseUTC(session.date, session.startTime)

registrationStartDateTime(session) ==
    ParseUTC(session.date, session.registrationStartTime)

closingTime(session) == sessionStartDateTime(session) - session.closingMinutes

\* sessionEndDateTime that takes the start for a missing endTime
sessionEndDateTime_AtStart(session) ==
    IF session.endTime # NoValue
    THEN ParseUTC(session.date, session.endTime)
    ELSE sessionStartDateTime(session)

\* the end of the session: its endTime, or two hours after its start
sessionEndDateTime(session) ==
    IF session.endTime # NoValue
    THEN ParseUTC(session.date, session.endTime)
    ELSE sessionStartDateTime(session) + 2 * MinutesPerHour

minutesUntilClosing(session, t) == closingTime(session) - t

\* calculateSessionStatus with the start tested before the end
calculateSessionStatus_StartFirst(session, t) ==
    IF t >= sessionStartDateTime(session) THEN "closed"
    ELSE IF t >= sessionEndDateTime(session) THEN "completed"
    ELSE IF t < registrationStartDateTime(session) THEN "open"
    ELSE IF /\ minutesUntilClosing(session, t) <= 30
            /\ minutesUntilClosing(session, t) > 0 THEN "closing"
    ELSE "open"

\* calculateSessionStatus with `now > start` for `now >= start`
calculateSessionStatus_StrictStart(session, t) ==
    IF t >= sessionEndDateTime(session) THEN "completed"
    ELSE IF t > sessionStartDateTime(session) THEN "closed"
    ELSE IF t < registrationStartDateTime(session) THEN "open"
    ELSE IF /\ minutesUntilClosing(session, t) <= 30
            /\ minutesUntilClosing(session, t) > 0 THEN "closing"
    ELSE "open"

\* calculateSessionStatus with the closing band up to the start
calculateSessionStatus_BandToStart(session, t) ==
    IF t >= sessionEndDateTime(session) THEN "completed"
    ELSE IF t >= sessionStartDateTime(session) THEN "closed"
    ELSE IF t < registrationStartDateTime(session) THEN "open"
    ELSE IF minutesUntilClosing(session, t) <= 30 THEN "closing"
    ELSE "open"

\* calculateSessionStatus without the test of the registration start
calculateSessionStatus_NoRegistrationTest(session, t) ==
    IF t >= sessionEndDateTime(session) THEN "completed"
    ELSE IF t >= sessionStartDateTime(session) THEN "closed"
    ELSE IF /\ minutesUntilClosing(session, t) <= 30
            /\ minutesUntilClosing(session, t) > 0 THEN "closing"
    ELSE "open"

calculateSessionStatus(session, t) ==
    IF t >= sessionEndDateTime(session) THEN "completed"
    ELSE IF t >= sessionStartDateTime(session) THEN "closed"
    ELSE IF t < registrationStartDateTime(session) THEN "open"
    ELSE IF /\ minutesUntilClosing(session, t) <= 30
            /\ minutesUntilClosing(session, t) > 0 THEN "closing"
    ELSE "open"

----------------------------------------------------------------------------
(* Text helpers: String.prototype.trim and toUpperCase, regex tests.       *)

UpperLetters ==
    <<"A", "B", "C", "D", "E", "F", "G", "H", "I", "J", "K", "L", "M",
      "N", "O", "P", "Q", "R", "S", "T", "U", "V", "W", "X", "Y", "Z">>

LowerLetters ==
    <<"a", "b", "c", "d", "e", "f", "g", "h", "i", "j", "k", "l", "m",
      "n", "o", "p", "q", "r", "s", "t", "u", "v", "w", "x", "y", "z">>

UpperLetterSet == {UpperLetters[i] : i \in DOMAIN UpperLetters}

LowerLetterSet == {LowerLetters[i] : i \in DOMAIN LowerLetters}

\* the upper-case letter of each lower-case letter
UpperOf ==
    [c \in LowerLetterSet |->
        UpperLetters[CHOOSE i \in DOMAIN LowerLetters : LowerLetters[i] = c]]

IsUpperLetter(c) == c \in UpperLetterSet

ToUpperChar(c) == IF c \in LowerLetterSet THEN UpperOf[c] ELSE c

ToUpperCase(str) == [i \in DOMAIN str |-> ToUpperChar(str[i])]

RECURSIVE TrimStart(_)
TrimStart(str) ==
    IF str # <<>> /\ Head(str) = " " THEN TrimStart(Tail(str)) ELSE str

RECURSIVE TrimEnd(_)
TrimEnd(str) ==
    IF str # <<>> /\ str[Len(str)] = " "
    THEN TrimEnd(SubSeq(str, 1, Len(str) - 1)) ELSE str

Trim(str) == TrimEnd(TrimStart(str))

Digits == <<"0", "1", "2", "3", "4", "5", "6", "7", "8", "9">>

----------------------------------------------------------------------------
(* Math.random.  A handler is given the values it will draw as a tape: the *)
(* n-th three-letter candidate it draws (n = 0, 1, ...) comes from         *)
(* tape.head while n < tape.headLen and from tape.tail afterwards; each is *)
(* the triple of the values Math.floor(Math.random() * chars.length), in   *)
(* 0 .. 25.  tape.digit is Math.floor(Math.random() * 10).                 *)

randomLetters(tape, n) == IF n < tape.headLen THEN tape.head ELSE tape.tail

\* threeLetters with a lower-case alphabet
threeLetters_Lower(r) == [i \in 1 .. 3 |-> LowerLetters[r[i] + 1]]

\* the loop of generateSessionCode, generateRSNKey and generateCode:
\* three times chars.charAt(Math.floor(Math.random() * chars.length))
threeLetters(r) == [i \in 1 .. 3 |-> UpperLetters[r[i] + 1]]

\* the bound of both retry loops
maxAttempts == 1000

----------------------------------------------------------------------------
(* Responses.  op names the operation and req its input, status is the    *)
(* HTTP status, error the error kind ("" when none) and sessions the       *)
(* session documents in the body.                                          *)

Response(op, req, status, error, docs) ==
    [op |-> op, req |-> req, status |-> status, error |-> error, sessions |-> docs]

NoResponse == Response("none", NoValue, 0, "", {})

\* a response together with what the code generator of the handler did
Generated(response, generated) == response @@ [generated |-> generated]

----------------------------------------------------------------------------
(* Sessions: routes/sessions.ts.                                           *)

HasField(body, f) == f \in DOMAIN body

\* createSessionSchema.parse(req.body) succeeds
createSessionSchema(body) ==
    /\ ValidTime(body.registrationStartTime)
    /\ ValidTime(body.startTime)
    /\ HasField(body, "endTime") => ValidTime(body.endTime)
    /\ HasField(body, "closingMinutes") => body.closingMinutes >= 0

\* the schedule createSession works with: validatedData with the defaults
validatedSchedule(body) ==
    [date |-> body.date,
     registrationStartTime |-> body.registrationStartTime,
     startTime |-> body.startTime,
     endTime |-> IF HasField(body, "endTime") THEN body.endTime ELSE NoValue,
     closingMinutes |->
        IF HasField(body, "closingMinutes") THEN body.closingMinutes ELSE 60]

\* the overlap test of createSession: the half-open intervals intersect
Max(a, b) == IF a >= b THEN a ELSE b
Min(a, b) == IF a <= b THEN a ELSE b

\* intervalsOverlap on closed intervals: a shared boundary counts
intervalsOverlap_Closed(s, new) ==
    Max(sessionStartDateTime(s), sessionStartDateTime(new))
        <= Min(sessionEndDateTime(s), sessionEndDateTime(new))

\* intervalsOverlap that only asks whether the candidate starts inside s
intervalsOverlap_StartInside(s, new) ==
    /\ sessionStartDateTime(s) <= sessionStartDateTime(new)
    /\ sessionStartDateTime(new) < sessionEndDateTime(s)

intervalsOverlap(s, new) ==
    Max(sessionStartDateTime(s), sessionStartDateTime(new))
        < Min(sessionEndDateTime(s), sessionEndDateTime(new))

\* the stored sessions the candidate conflicts with
conflicts(new) ==
    {s \in {o \in sessions : o.date = new.date} : intervalsOverlap(s, new)}

generateSessionCode(r) == threeLetters(r)

\* no session created in the last 60 days carries the code
isSessionCodeUnique(code) ==
    LET sixtyDaysAgo == now - 60 * MinutesPerDay
    IN  ~\E s \in sessions :
            s.sessionCode = ToUpperCase(code) /\ s.createdAt >= sixtyDaysAgo

\* the value of `attempts` when the while loop of generateUniqueSessionCode
\* ends.  The code tested with attempts = n is the n-th one drawn, and the
\* loop goes on while that code is not unique and n < maxAttempts, so it
\* ends at the first n for which this fails.
sessionCodeAttempts(tape) ==
    LET rejected(n) ==
            ~isSessionCodeUnique(generateSessionCode(randomLetters(tape, n)))
    IN  CHOOSE n \in 0 .. maxAttempts :
            /\ ~(rejected(n) /\ n < maxAttempts)
            /\ \A i \in 0 .. (n - 1) : rejected(i) /\ i < maxAttempts

\* code is the value returned; probes counts the calls of
\* isSessionCodeUnique and accepted tells what the last of them answered
generateUniqueSessionCode(tape) ==
    LET attempts == sessionCodeAttempts(tape)
        last == generateSessionCode(randomLetters(tape, attempts))
    IN  [code |-> IF attempts >= maxAttempts
                  THEN generateSessionCode(randomLetters(tape, attempts + 1))
                           \o <<Digits[tape.digit + 1]>>
                  ELSE last,
         fallback |-> attempts >= maxAttempts,
         probes |-> attempts + 1,
         accepted |-> isSessionCodeUnique(last),
         last |-> last]

\* the greatest stored sessionNumber plus one, or 1 when no stored session
\* has one
getNextSessionNumber ==
    LET numbered == {s \in sessions : HasField(s, "sessionNumber")}
    IN  IF numbered = {} THEN 1
        ELSE (CHOOSE n \in {s.sessionNumber : s \in numbered} :
                  \A s \in numbered : s.sessionNumber <= n) + 1

\* the paths of SessionSchema the model keeps (comments, createdByName and
\* updatedAt are left out: no handler reads them)
SessionSchema ==
    {"id", "sessionCode", "date", "registrationStartTime", "startTime",
     "endTime", "status", "closingMinutes", "createdById", "createdAt"}

\* new Session({...}): a strict schema keeps only its own paths, the
\* sessionCode setters trim and upper-case, timestamps set createdAt
newSession(id, generated, sessionNumber, schedule, status, userId) ==
    LET given == [id |-> id,
                  sessionCode |-> ToUpperCase(Trim(generated.code)),
                  sessionNumber |-> sessionNumber,
                  date |-> schedule.date,
                  registrationStartTime |-> schedule.registrationStartTime,
                  startTime |-> schedule.startTime,
                  endTime |-> schedule.endTime,
                  closingMinutes |-> schedule.closingMinutes,
                  status |-> status,
                  createdById |-> userId,
                  createdAt |-> now]
    IN  [path \in DOMAIN given \cap SessionSchema |-> given[path]]

\* sessionSaves without the minlength and maxlength validators
sessionSaves_NoLength(doc) ==
    ~\E s \in sessions : s.id = doc.id \/ s.sessionCode = doc.sessionCode

\* session.save() passes the validators and the unique indexes
sessionSaves(doc) ==
    /\ Len(doc.sessionCode) = 3
    /\ ~\E s \in sessions : s.id = doc.id \/ s.sessionCode = doc.sessionCode

\* POST /api/sessions; id is the value generateId() draws and tape the
\* values the code generator draws
createSession(body, id, userId, tape) ==
    LET req == [body |-> body, id |-> id, userId |-> userId, tape |-> tape]
    IN
    /\ UNCHANGED <<now, tz, participants, validKeys, pending>>
    /\ IF ~createSessionSchema(body)
       THEN /\ resp' = Response("createSession", req, 400, "Validation error", {})
            /\ UNCHANGED sessions
       ELSE LET schedule == validatedSchedule(body)
                generated == generateUniqueSessionCode(tape)
                sessionNumber == getNextSessionNumber
                status == calculateSessionStatus(schedule, now)
                doc == newSession(id, generated, sessionNumber, schedule, status, userId)
                found == conflicts(schedule)
            IN  IF found # {}
                THEN /\ \E c \in found :
                            resp' = Generated(
                                Response("createSession", req, 400, "Conflict", {c}),
                                generated)
                     /\ UNCHANGED sessions
                ELSE IF ~sessionSaves(doc)
                THEN \* a validator or a unique index refuses the save
                     /\ resp' = Generated(
                            Response("createSession", req, 500, "Failure", {}),
                            generated)
                     /\ UNCHANGED sessions
                ELSE /\ sessions' = sessions \cup {doc}
                     /\ resp' = Generated(
                            Response("createSession", req, 201, "", {doc}),
                            generated)

\* refreshed that leaves a session stored as completed alone
refreshed_KeepCompleted(s) ==
    IF s.status = "completed" THEN s
    ELSE [s EXCEPT !.status = calculateSessionStatus(s, now)]

\* the status refresh of the two listings: recompute, save when changed
refreshed(s) == [s EXCEPT !.status = calculateSessionStatus(s, now)]

\* the response of a listing, with the ids of the documents it saved
Saved(response, saved) == response @@ [saved |-> saved]

\* the documents of found whose status the refresh changes
changed(found) == {s \in found : s.status # calculateSessionStatus(s, now)}

\* refreshAndReturn that answers with the new statuses and saves nothing
refreshAndReturn_NoSave(op, req, found) ==
    /\ resp' = Saved(Response(op, req, 200, "", {refreshed(s) : s \in found}), {})
    /\ UNCHANGED <<now, tz, sessions, participants, validKeys, pending>>

\* refreshAndReturn that saves every document it found
refreshAndReturn_SaveAll(op, req, found) ==
    /\ sessions' = (sessions \ found) \cup {refreshed(s) : s \in found}
    /\ resp' = Saved(Response(op, req, 200, "", {refreshed(s) : s \in found}),
                     {s.id : s \in found})
    /\ UNCHANGED <<now, tz, participants, validKeys, pending>>

refreshAndReturn(op, req, found) ==
    /\ sessions' = (sessions \ changed(found))
                       \cup {refreshed(s) : s \in changed(found)}
    /\ resp' = Saved(Response(op, req, 200, "", {refreshed(s) : s \in found}),
                     {s.id : s \in changed(found)})
    /\ UNCHANGED <<now, tz, participants, validKeys, pending>>

\* GET /api/sessions?status=...
listSessions(status) ==
    refreshAndReturn("listSessions", status,
        IF status # "" /\ status # "all"
        THEN {s \in sessions : s.status = status}
        ELSE sessions)

\* getUpcomingSessions that looks at the sessions stored as open only
getUpcomingSessions_OpenOnly ==
    refreshAndReturn("getUpcomingSessions", NoValue,
        {s \in sessions : s.status = "open"})

\* GET /api/sessions/upcoming
getUpcomingSessions ==
    refreshAndReturn("getUpcomingSessions", NoValue,
        {s \in sessions : s.status # "completed"})

\* PATCH /api/sessions/:id; the patch may carry a status (comments are not modelled)
updateSession(id, patch) ==
    /\ UNCHANGED <<now, tz, participants, validKeys, pending>>
    /\ IF ~\E s \in sessions : s.id = id
       THEN /\ resp' = Response("updateSession", id, 404, "NotFound", {})
            /\ UNCHANGED sessions
       ELSE LET session == CHOOSE s \in sessions : s.id = id
                patched == IF HasField(patch, "status")
                           THEN [session EXCEPT !.status = patch.status]
                           ELSE session
            IN  /\ sessions' = (sessions \ {session}) \cup {patched}
                /\ resp' = Response("updateSession", id, 200, "", {patched})

\* deleteSession without the test of the stored status
deleteSession_NoStatusCheck(id) ==
    /\ UNCHANGED <<now, tz, validKeys, pending>>
    /\ IF ~\E s \in sessions : s.id = id
       THEN /\ resp' = Response("deleteSession", id, 404, "NotFound", {})
            /\ UNCHANGED <<sessions, participants>>
       ELSE /\ participants' = {p \in participants : p.sessionId # id}
            /\ sessions' = {s \in sessions : s.id # id}
            /\ resp' = Response("deleteSession", id, 200, "", {})

\* deleteSession that leaves the participants of the session behind
deleteSession_KeepParticipants(id) ==
    /\ UNCHANGED <<now, tz, validKeys, participants, pending>>
    /\ IF ~\E s \in sessions : s.id = id
       THEN /\ resp' = Response("deleteSession", id, 404, "NotFound", {})
            /\ UNCHANGED sessions
       ELSE LET session == CHOOSE s \in sessions : s.id = id
            IN  IF session.status # "completed"
                THEN /\ resp' = Response("deleteSession", id, 400, "InvalidState", {})
                     /\ UNCHANGED sessions
                ELSE /\ sessions' = {s \in sessions : s.id # id}
                     /\ resp' = Response("deleteSession", id, 200, "", {})

\* DELETE /api/sessions/:id
deleteSession(id) ==
    /\ UNCHANGED <<now, tz, validKeys, pending>>
    /\ IF ~\E s \in sessions : s.id = id
       THEN /\ resp' = Response("deleteSession", id, 404, "NotFound", {})
            /\ UNCHANGED <<sessions, participants>>
       ELSE LET session == CHOOSE s \in sessions : s.id = id
            IN  IF session.status # "completed"
                THEN /\ resp' = Response("deleteSession", id, 400, "InvalidState", {})
                     /\ UNCHANGED <<sessions, participants>>
                ELSE /\ participants' = {p \in participants : p.sessionId # session.id}
                     /\ sessions' = {s \in sessions : s.id # id}
                     /\ resp' = Response("deleteSession", id, 200, "", {})

----------------------------------------------------------------------------
(* Participants: routes/participants.ts.  A participant is kept as its id, *)
(* the session it belongs to and its personal code.                        *)

generateCode(r) == threeLetters(r)

\* POST /api/participants; id is the value generateId() draws and r the
\* letters generateCode draws
createParticipant(sessionId, id, r) ==
    LET req == [sessionId |-> sessionId, id |-> id, r |-> r]
    IN
    /\ UNCHANGED <<now, tz, sessions, validKeys, pending>>
    /\ IF ~\E s \in sessions : s.id = sessionId
       THEN /\ resp' = Response("createParticipant", req, 404, "NotFound", {})
            /\ UNCHANGED participants
       ELSE LET session == CHOOSE s \in sessions : s.id = sessionId
                opens == ParseLocal(session.date, session.registrationStartTime)
                closes == ParseLocal(session.date, session.startTime)
                              - session.closingMinutes
            IN  IF now < opens
                THEN /\ resp' = Response("createParticipant", req, 400,
                                         "Registration has not started yet", {})
                     /\ UNCHANGED participants
                ELSE IF now >= closes
                THEN /\ resp' = Response("createParticipant", req, 400,
                                         "Registration is closed", {})
                     /\ UNCHANGED participants
                ELSE IF \E p \in participants : p.id = id
                THEN \* the unique index on id refuses the save
                     /\ resp' = Response("createParticipant", req, 500, "Failure", {})
                     /\ UNCHANGED participants
                ELSE /\ participants' =
                            participants \cup {[id |-> id, sessionId |-> sessionId,
                                                code |-> generateCode(r)]}
                     /\ resp' = Response("createParticipant", req, 201, "", {})

----------------------------------------------------------------------------
(* Validation keys: routes/validKeys.ts and models/ValidKey.ts.  A key is  *)
(* kept without its id: the unique index on (key, month) already tells     *)
(* any two stored keys apart.                                              *)

getCurrentMonth == LocalYearMonth(now)

getPreviousMonth ==
    LET ym == LocalYearMonth(now)
    IN  IF ym[2] = 1 THEN <<ym[1] - 1, 12>> ELSE <<ym[1], ym[2] - 1>>

\* isKeyUnique that looks at the current month only
isKeyUnique_CurrentMonthOnly(key) ==
    ~\E k \in validKeys : k.key = ToUpperCase(key) /\ k.month = getCurrentMonth

isKeyUnique(key) ==
    ~\E k \in validKeys :
        k.key = ToUpperCase(key) /\ k.month \in {getCurrentMonth, getPreviousMonth}

generateRSNKey(r) == threeLetters(r)

\* the value of `attempts` when the while loop of generateUniqueKey ends: the
\* first n for which the n-th key drawn is unique or n is maxAttempts
uniqueKeyAttempts(tape) ==
    LET rejected(n) == ~isKeyUnique(generateRSNKey(randomLetters(tape, n)))
    IN  CHOOSE n \in 0 .. maxAttempts :
            /\ ~(rejected(n) /\ n < maxAttempts)
            /\ \A i \in 0 .. (n - 1) : rejected(i) /\ i < maxAttempts

\* code is the value returned; probes counts the calls of isKeyUnique and
\* accepted tells what the last of them answered
generateUniqueKey(tape) ==
    LET attempts == uniqueKeyAttempts(tape)
        last == generateRSNKey(randomLetters(tape, attempts))
    IN  [code |-> ToUpperCase(
                      IF attempts >= maxAttempts
                      THEN generateRSNKey(randomLetters(tape, attempts + 1))
                               \o <<Digits[tape.digit + 1]>>
                      ELSE last),
         fallback |-> attempts >= maxAttempts,
         probes |-> attempts + 1,
         accepted |-> isKeyUnique(last),
         last |-> last]

\* GET /api/valid-keys/generate/unique
getUniqueKey(tape) ==
    /\ resp' = Generated(Response("getUniqueKey", tape, 200, "", {}),
                         generateUniqueKey(tape))
    /\ UNCHANGED <<now, tz, sessions, participants, validKeys, pending>>

\* addValidKeySchema.parse(req.body) succeeds
addValidKeySchema(body) ==
    /\ Len(body.key) = 3
    /\ \A i \in DOMAIN body.key : IsUpperLetter(body.key[i])
    /\ Len(body.pilotName) >= 1 /\ Len(body.pilotName) <= 100

\* POST /api/valid-keys
issueValidationKey(body) ==
    /\ UNCHANGED <<now, tz, sessions, participants, pending>>
    /\ IF ~addValidKeySchema(body)
       THEN /\ resp' = Response("issueValidationKey", body, 400, "Validation error", {})
            /\ UNCHANGED validKeys
       ELSE IF ~\E s \in sessions : s.id = body.sessionId
       THEN /\ resp' = Response("issueValidationKey", body, 404, "NotFound", {})
            /\ UNCHANGED validKeys
       ELSE IF ~isKeyUnique(body.key)
       THEN /\ resp' = Response("issueValidationKey", body, 400, "Key already exists", {})
            /\ UNCHANGED validKeys
       ELSE IF \E k \in validKeys :
                    /\ k.sessionId = body.sessionId
                    /\ k.pilotName = body.pilotName
                    /\ k.month \in {getCurrentMonth, getPreviousMonth}
       THEN /\ resp' = Response("issueValidationKey", body, 400,
                                "Pilot already has a key for this session", {})
            /\ UNCHANGED validKeys
       ELSE LET validKey == [sessionId |-> body.sessionId,
                             key |-> ToUpperCase(body.key),
                             pilotName |-> Trim(body.pilotName),
                             month |-> getCurrentMonth]
            IN  IF \/ validKey.pilotName = <<>>
                   \/ \E k \in validKeys :
                         k.key = validKey.key /\ k.month = validKey.month
                THEN \* the required validator or the unique index refuses the save
                     /\ resp' = Response("issueValidationKey", body, 500, "Failure", {})
                     /\ UNCHANGED validKeys
                ELSE /\ validKeys' = validKeys \cup {validKey}
                     /\ resp' = Response("issueValidationKey", body, 201, "", {})

----------------------------------------------------------------------------
(* Requests in flight.  A handler is an async function: it runs from one   *)
(* `await` of a storage call to the next without interruption, and other   *)
(* requests are served while it waits.  A step below is one storage call   *)
(* together with the code that runs when its result arrives, up to the     *)
(* next storage call.  pending maps the id of a request to the handler it  *)
(* runs, the call it waits for, its input and its local variables.         *)

Awaiting(op, pc, req, locals) ==
    [op |-> op, pc |-> pc, req |-> req, locals |-> locals]

\* the request rid waits for the storage call pc of the handler op
At(rid, op, pc) ==
    /\ rid \in DOMAIN pending
    /\ pending[rid].op = op
    /\ pending[rid].pc = pc

\* the handler goes on to its next storage call; nothing is answered yet
suspend(rid, request) ==
    /\ pending' = [r \in DOMAIN pending \cup {rid} |->
                       IF r = rid THEN request ELSE pending[r]]
    /\ resp' = NoResponse

\* the handler answers and ends
respond(rid, response) ==
    /\ pending' = [r \in DOMAIN pending \ {rid} |-> pending[r]]
    /\ resp' = response

\* the months a handler computes before a ValidKey query
months == {getCurrentMonth, getPreviousMonth}

\* POST /api/valid-keys arrives: the body is parsed and Session.findOne runs
issueBegin(rid, body) ==
    /\ rid \notin DOMAIN pending
    /\ UNCHANGED <<now, tz, sessions, participants, validKeys>>
    /\ IF ~addValidKeySchema(body)
       THEN respond(rid, Response("issueValidationKey", body, 400, "Validation error", {}))
       ELSE IF ~\E s \in sessions : s.id = body.sessionId
       THEN respond(rid, Response("issueValidationKey", body, 404, "NotFound", {}))
       ELSE suspend(rid, Awaiting("issueValidationKey", "isKeyUnique", body,
                                  [months |-> months]))

\* issueProbe that also refuses a key another request in flight has probed
issueProbe_Exclusive(rid) ==
    /\ At(rid, "issueValidationKey", "isKeyUnique")
    /\ UNCHANGED <<now, tz, sessions, participants, validKeys>>
    /\ LET body == pending[rid].req
       IN  IF \/ \E k \in validKeys :
                    /\ k.key = ToUpperCase(body.key)
                    /\ k.month \in pending[rid].locals.months
              \/ \E r \in DOMAIN pending \ {rid} :
                    /\ pending[r].op = "issueValidationKey"
                    /\ pending[r].pc # "isKeyUnique"
                    /\ pending[r].req.key = body.key
           THEN respond(rid, Response("issueValidationKey", body, 400,
                                      "Key already exists", {}))
           ELSE suspend(rid, Awaiting("issueValidationKey", "findPilot", body,
                                      [months |-> months]))

\* the ValidKey.findOne of isKeyUnique runs
issueProbe(rid) ==
    /\ At(rid, "issueValidationKey", "isKeyUnique")
    /\ UNCHANGED <<now, tz, sessions, participants, validKeys>>
    /\ LET body == pending[rid].req
       IN  IF \E k \in validKeys :
                 /\ k.key = ToUpperCase(body.key)
                 /\ k.month \in pending[rid].locals.months
           THEN respond(rid, Response("issueValidationKey", body, 400,
                                      "Key already exists", {}))
           ELSE suspend(rid, Awaiting("issueValidationKey", "findPilot", body,
                                      [months |-> months]))

\* the ValidKey.findOne for the pilot runs; the document is built
issueLookup(rid) ==
    /\ At(rid, "issueValidationKey", "findPilot")
    /\ UNCHANGED <<now, tz, sessions, participants, validKeys>>
    /\ LET body == pending[rid].req
       IN  IF \E k \in validKeys :
                 /\ k.sessionId = body.sessionId
                 /\ k.pilotName = body.pilotName
                 /\ k.month \in pending[rid].locals.months
           THEN respond(rid, Response("issueValidationKey", body, 400,
                                      "Pilot already has a key for this session", {}))
           ELSE suspend(rid, Awaiting("issueValidationKey", "save", body,
                            [validKey |-> [sessionId |-> body.sessionId,
                                           key |-> ToUpperCase(body.key),
                                           pilotName |-> Trim(body.pilotName),
                                           month |-> getCurrentMonth]]))

\* issuePersist on a collection without the unique index on (key, month)
issuePersist_NoIndex(rid) ==
    /\ At(rid, "issueValidationKey", "save")
    /\ UNCHANGED <<now, tz, sessions, participants>>
    /\ LET validKey == pending[rid].locals.validKey
       IN  IF validKey.pilotName = <<>>
           THEN /\ respond(rid, Response("issueValidationKey", pending[rid].req,
                                         500, "Failure", {}))
                /\ UNCHANGED validKeys
           ELSE /\ validKeys' = validKeys \cup {validKey}
                /\ respond(rid, Response("issueValidationKey", pending[rid].req,
                                         201, "", {}))

\* validKey.save() runs
issuePersist(rid) ==
    /\ At(rid, "issueValidationKey", "save")
    /\ UNCHANGED <<now, tz, sessions, participants>>
    /\ LET validKey == pending[rid].locals.validKey
       IN  IF \/ validKey.pilotName = <<>>
              \/ \E k \in validKeys :
                    k.key = validKey.key /\ k.month = validKey.month
           THEN \* the required validator or the unique index refuses the save
                /\ respond(rid, Response("issueValidationKey", pending[rid].req,
                                         500, "Failure", {}))
                /\ UNCHANGED validKeys
           ELSE /\ validKeys' = validKeys \cup {validKey}
                /\ respond(rid, Response("issueValidationKey", pending[rid].req,
                                         201, "", {}))

\* POST /api/sessions arrives and runs up to Session.find({date}); the
\* queries of the code generator, of getNextSessionNumber and of the creator
\* are taken together with it, and so is the overlap test on what was found
createBegin(rid, body, id, userId, tape) ==
    LET req == [body |-> body, id |-> id, userId |-> userId, tape |-> tape]
    IN
    /\ rid \notin DOMAIN pending
    /\ UNCHANGED <<now, tz, sessions, participants, validKeys>>
    /\ IF ~createSessionSchema(body)
       THEN respond(rid, Response("createSession", req, 400, "Validation error", {}))
       ELSE LET schedule == validatedSchedule(body)
                generated == generateUniqueSessionCode(tape)
                sessionNumber == getNextSessionNumber
                status == calculateSessionStatus(schedule, now)
                doc == newSession(id, generated, sessionNumber, schedule, status, userId)
                found == conflicts(schedule)
            IN  IF found # {}
                THEN \E c \in found :
                        respond(rid, Generated(
                            Response("createSession", req, 400, "Conflict", {c}),
                            generated))
                ELSE suspend(rid, Awaiting("createSession", "save", req,
                                           [session |-> doc, generated |-> generated]))

\* session.save() runs
createPersist(rid) ==
    /\ At(rid, "createSession", "save")
    /\ UNCHANGED <<now, tz, participants, validKeys>>
    /\ LET doc == pending[rid].locals.session
           generated == pending[rid].locals.generated
       IN  IF ~sessionSaves(doc)
           THEN \* a validator or a unique index refuses the save
                /\ respond(rid, Generated(
                       Response("createSession", pending[rid].req, 500, "Failure", {}),
                       generated))
                /\ UNCHANGED sessions
           ELSE /\ sessions' = sessions \cup {doc}
                /\ respond(rid, Generated(
                       Response("createSession", pending[rid].req, 201, "", {doc}),
                       generated))

\* POST /api/participants arrives: Session.findOne runs and the registration
\* window is tested
participantBegin(rid, sessionId, id, r) ==
    LET req == [sessionId |-> sessionId, id |-> id, r |-> r]
    IN
    /\ rid \notin DOMAIN pending
    /\ UNCHANGED <<now, tz, sessions, participants, validKeys>>
    /\ IF ~\E s \in sessions : s.id = sessionId
       THEN respond(rid, Response("createParticipant", req, 404, "NotFound", {}))
       ELSE LET session == CHOOSE s \in sessions : s.id = sessionId
                opens == ParseLocal(session.date, session.registrationStartTime)
                closes == ParseLocal(session.date, session.startTime)
                              - session.closingMinutes
            IN  IF now < opens
                THEN respond(rid, Response("createParticipant", req, 400,
                                           "Registration has not started yet", {}))
                ELSE IF now >= closes
                THEN respond(rid, Response("createParticipant", req, 400,
                                           "Registration is closed", {}))
                ELSE suspend(rid, Awaiting("createParticipant", "save", req,
                                 [participant |-> [id |-> id, sessionId |-> sessionId,
                                                   code |-> generateCode(r)]]))

\* participant.save() runs
participantPersist(rid) ==
    /\ At(rid, "createParticipant", "save")
    /\ UNCHANGED <<now, tz, sessions, validKeys>>
    /\ LET participant == pending[rid].locals.participant
       IN  IF \E p \in participants : p.id = participant.id
           THEN \* the unique index on id refuses the save
                /\ respond(rid, Response("createParticipant", pending[rid].req,
                                         500, "Failure", {}))
                /\ UNCHANGED participants
           ELSE /\ participants' = participants \cup {participant}
                /\ respond(rid, Response("createParticipant", pending[rid].req,
                                         201, "", {}))

\* DELETE /api/sessions/:id arrives: Session.findOne runs and the stored
\* status is tested
deleteBegin(rid, id) ==
    /\ rid \notin DOMAIN pending
    /\ UNCHANGED <<now, tz, sessions, participants, validKeys>>
    /\ IF ~\E s \in sessions : s.id = id
       THEN respond(rid, Response("deleteSession", id, 404, "NotFound", {}))
       ELSE LET session == CHOOSE s \in sessions : s.id = id
            IN  IF session.status # "completed"
                THEN respond(rid, Response("deleteSession", id, 400, "InvalidState", {}))
                ELSE suspend(rid, Awaiting("deleteSession", "deleteMany", id,
                                           [session |-> session]))

\* Participant.deleteMany({sessionId}) runs
deleteMany(rid) ==
    /\ At(rid, "deleteSession", "deleteMany")
    /\ UNCHANGED <<now, tz, sessions, validKeys>>
    /\ participants' =
           {p \in participants : p.sessionId # pending[rid].locals.session.id}
    /\ suspend(rid, Awaiting("deleteSession", "deleteOne", pending[rid].req,
                             pending[rid].locals))

\* Session.deleteOne({id}) runs
deleteOne(rid) ==
    /\ At(rid, "deleteSession", "deleteOne")
    /\ UNCHANGED <<now, tz, participants, validKeys>>
    /\ sessions' = {s \in sessions : s.id # pending[rid].req}
    /\ respond(rid, Response("deleteSession", pending[rid].req, 200, "", {}))

----------------------------------------------------------------------------
(* The clock and the zone.                                                 *)

\* the clock moves on to a later instant; the response has been delivered
Tick(t) ==
    /\ t > now
    /\ now' = t
    /\ resp' = NoResponse
    /\ UNCHANGED <<tz, sessions, participants, validKeys, pending>>

----------------------------------------------------------------------------
(* The status engine on its own: one session slot, a fine clock over the   *)
(* session's day, schedules with and without an end, with an end before    *)
(* the start, and with closing windows of 0, 30 and 60 (default) minutes.  *)

\* a tape for each session id, so that no two ids draw the same code; the
\* second and later draws give a code no other tape gives first
IdTape(id) == [head |-> <<0, 0, id>>, headLen |-> 1, tail |-> <<0, 1, id>>, digit |-> 0]

\* the process is restarted with another local zone (the TZ of its host)
Migrate(z) ==
    /\ z # tz
    /\ tz' = z
    /\ UNCHANGED <<now, sessions, participants, validKeys, resp, pending>>

Init(zones, t0) ==
    /\ now = t0
    /\ tz \in zones
    /\ sessions = {}
    /\ participants = {}
    /\ validKeys = {}
    /\ resp = NoResponse
    /\ pending = <<>>

StatusDate == <<2024, 6, 1>>

StatusTicks == 60

\* 07:30, 07:35, ... on the session's day
StatusClock ==
    {ParseUTC(StatusDate, <<7, 30>>) + 5 * k : k \in 0 .. StatusTicks}

StatusBodies ==
    LET base == [date : {StatusDate},
                 registrationStartTime : {<<8, 0>>, <<9, 30>>},
                 startTime : {<<10, 0>>}]
    IN  base
        \cup {b @@ [endTime |-> e] : b \in base, e \in {<<9, 0>>, <<11, 0>>}}
        \cup {b @@ [closingMinutes |-> c] : b \in base, c \in {0, 30}}
        \cup {b @@ [endTime |-> e] @@ [closingMinutes |-> c] :
                b \in base, e \in {<<9, 0>>, <<11, 0>>}, c \in {0, 30}}
        \cup {b @@ [endTime |-> <<24, 0>>] : b \in base}

\* the dispatcher works before registration opens, in the closing band and
\* at the start
StatusCreateAt == {ParseUTC(StatusDate, t) : t \in {<<7, 30>>, <<9, 25>>, <<10, 0>>}}

\* the clock moves on by 5, 15 or 60 minutes
StatusTick == \E d \in {5, 15, 60} : now + d \in StatusClock /\ Tick(now + d)
StatusCreate ==
    /\ now \in StatusCreateAt
    /\ \E body \in StatusBodies : createSession(body, 1, "u1", IdTape(1))
StatusList == \E status \in {"", "all", "closing"} : listSessions(status)
StatusUpcoming == getUpcomingSessions
StatusUpdate == \E status \in Statuses : updateSession(1, [status |-> status])
StatusDelete == deleteSession(1)

NextStatus ==
    \/ StatusTick
    \/ StatusCreate
    \/ StatusList
    \/ StatusUpcoming
    \/ StatusUpdate
    \/ StatusDelete

SpecStatus ==
    Init({0}, ParseUTC(StatusDate, <<7, 30>>)) /\ [][NextStatus]_vars

----------------------------------------------------------------------------
(* Session creation against the overlap detector: a sequence of creations *)
(* on two dates by two dispatchers, with starts and ends that overlap,     *)
(* touch or lie apart.                                                     *)

MaxSessions == 2

SessionIds == 1 .. MaxSessions

Users == {"u1", "u2"}

OverlapBody(date, start, end) ==
    [date |-> date, registrationStartTime |-> <<8, 0>>, startTime |-> start]
        @@ (IF end = NoValue THEN <<>> ELSE [endTime |-> end])

\* intervals of one date that overlap, touch, lie apart or end before they
\* start, with and without an end, and one schedule on the next date
OverlapBodies ==
    {OverlapBody(<<2024, 6, 1>>, <<9, 0>>, <<11, 0>>),
     OverlapBody(<<2024, 6, 1>>, <<10, 30>>, <<12, 0>>),
     OverlapBody(<<2024, 6, 1>>, <<11, 0>>, <<13, 0>>),
     OverlapBody(<<2024, 6, 1>>, <<10, 0>>, NoValue),
     OverlapBody(<<2024, 6, 1>>, <<10, 30>>, NoValue),
     OverlapBody(<<2024, 6, 1>>, <<9, 0>>, <<10, 0>>),
     OverlapBody(<<2024, 6, 1>>, <<11, 0>>, <<10, 0>>),
     OverlapBody(<<2024, 6, 2>>, <<10, 0>>, NoValue)}

OverlapCreate ==
    \E body \in OverlapBodies, id \in SessionIds, userId \in Users :
        createSession(body, id, userId, IdTape(id))

NextOverlap == OverlapCreate

SpecOverlap ==
    Init({0}, ParseUTC(<<2024, 5, 31>>, <<12, 0>>)) /\ [][NextOverlap]_vars

----------------------------------------------------------------------------
(* The store as a whole: two sessions of one day that touch at 12:00,      *)
(* their participants and keys, status patches, listings and deletions,    *)
(* with the clock inside the registration windows and after both ends.     *)

MaxParticipants == 2

ParticipantIds == 1 .. MaxParticipants

TimeZones == {0, 180}

StoreDate == <<2024, 6, 1>>

StoreBodies ==
    {[date |-> StoreDate, registrationStartTime |-> <<8, 0>>,
      startTime |-> <<10, 0>>],
     [date |-> StoreDate, registrationStartTime |-> <<8, 0>>,
      startTime |-> <<12, 0>>, endTime |-> <<13, 0>>, closingMinutes |-> 30]}

StoreClock == {ParseUTC(StoreDate, t) : t \in {<<8, 45>>, <<13, 30>>}}

StoreKeys == {<<"A", "B", "C">>}

StorePilots == {<<"b">>}

StoreTick == \E t \in StoreClock : Tick(t)
StoreCreate ==
    /\ now = ParseUTC(StoreDate, <<8, 45>>)
    /\ \E body \in StoreBodies, id \in SessionIds :
        createSession(body, id, "u1", IdTape(id))
StoreList == listSessions("all")
StoreUpdate ==
    \E id \in SessionIds, patch \in [status : Statuses] : updateSession(id, patch)
StoreDelete == \E id \in SessionIds : deleteSession(id)
StoreParticipant ==
    \E sessionId \in SessionIds, id \in ParticipantIds :
        createParticipant(sessionId, id, <<15, 0, id>>)
StoreKey ==
    \E sessionId \in SessionIds, key \in StoreKeys, pilotName \in StorePilots :
        issueValidationKey(
            [sessionId |-> sessionId, key |-> key, pilotName |-> pilotName])

Next ==
    \/ StoreTick
    \/ StoreCreate
    \/ StoreList
    \/ getUpcomingSessions
    \/ StoreUpdate
    \/ StoreDelete
    \/ StoreParticipant
    \/ StoreKey

Spec == Init({0}, ParseUTC(StoreDate, <<8, 45>>)) /\ [][Next]_vars

----------------------------------------------------------------------------
(* The listings: the sessions alone, on two dates, with a clock that runs  *)
(* through the first day, both listings with and without a filter, and     *)
(* status patches.                                                         *)

ListingBodies ==
    StoreBodies
    \cup {[date |-> <<2024, 6, 2>>, registrationStartTime |-> <<8, 0>>,
           startTime |-> <<10, 0>>, closingMinutes |-> 0]}

ListingClock ==
    {ParseUTC(StoreDate, t) :
        t \in {<<7, 0>>, <<8, 45>>, <<10, 30>>, <<12, 30>>, <<13, 30>>}}

\* sessions are created before the day begins and while the first is running
ListingCreateAt == {ParseUTC(StoreDate, t) : t \in {<<7, 0>>, <<10, 30>>}}

ListingTick == \E t \in ListingClock : Tick(t)
ListingCreate ==
    /\ now \in ListingCreateAt
    /\ \E body \in ListingBodies, id \in SessionIds :
        createSession(body, id, "u1", IdTape(id))
ListingList ==
    \E status \in {"", "all", "open", "completed"} : listSessions(status)
ListingUpcoming == getUpcomingSessions
ListingUpdate ==
    \E id \in SessionIds, patch \in [status : Statuses] \cup {[comments |-> "c"]} :
        updateSession(id, patch)
ListingDelete == \E id \in SessionIds : deleteSession(id)

NextListing ==
    \/ ListingTick
    \/ ListingCreate
    \/ ListingList
    \/ ListingUpcoming
    \/ ListingUpdate
    \/ ListingDelete

SpecListing == Init({0}, ParseUTC(StoreDate, <<7, 0>>)) /\ [][NextListing]_vars

----------------------------------------------------------------------------
(* Validation keys over the months: the clock runs from November 2024 to   *)
(* February 2025, over the turn of the year, and keys are requested for    *)
(* two sessions.                                                           *)

\* 2024-12-31T22:00Z is December in UTC and January in UTC+3
KeysClock ==
    {ParseUTC(<<2024, 11, 15>>, <<12, 0>>), ParseUTC(<<2024, 12, 31>>, <<22, 0>>),
     ParseUTC(<<2025, 1, 15>>, <<12, 0>>), ParseUTC(<<2025, 2, 15>>, <<12, 0>>)}

\* one schedule for each session id, each on a day of its own
KeysBody(id) ==
    [date |-> <<2025, 6, id>>, registrationStartTime |-> <<8, 0>>,
     startTime |-> <<10, 0>>]

KeysInputs ==
    [sessionId : SessionIds,
     key : {<<"A", "B", "C">>, <<"X", "Y", "Z">>, <<"a", "b", "c">>},
     pilotName : {<<"b">>, <<" ", "b">>}]

KeysTick == \E t \in KeysClock : Tick(t)
KeysCreate ==
    /\ now = ParseUTC(<<2024, 11, 15>>, <<12, 0>>)
    /\ \E id \in SessionIds : createSession(KeysBody(id), id, "u1", IdTape(id))
KeysIssue == \E body \in KeysInputs : issueValidationKey(body)

NextKeys ==
    \/ KeysTick
    \/ KeysCreate
    \/ KeysIssue

SpecKeys ==
    Init(TimeZones, ParseUTC(<<2024, 11, 15>>, <<12, 0>>)) /\ [][NextKeys]_vars

----------------------------------------------------------------------------
(* The code generators at one instant: session codes, generated keys and   *)
(* personal codes, with tapes that draw a code once, again and again, or   *)
(* until the retry loop is at its bound.                                   *)

MaxCoded == 2

CodesIds == 1 .. MaxCoded

\* one schedule for each session id, each on a day of its own
CodesBody(id) ==
    [date |-> <<2024, 6, id>>, registrationStartTime |-> <<6, 0>>,
     startTime |-> <<10, 0>>]

CodesTape(headLen, tail, digit) ==
    [head |-> <<0, 1, 2>>, headLen |-> headLen, tail |-> tail, digit |-> digit]

\* XYZ every time, ABC every time, ABC and then XYZ from the second draw,
\* from the last draw the loop tests, or from the draw of the fallback
CodesTapes ==
    {CodesTape(0, <<23, 24, 25>>, 0),
     CodesTape(0, <<0, 1, 2>>, 7),
     CodesTape(1, <<23, 24, 25>>, 0),
     CodesTape(maxAttempts, <<23, 24, 25>>, 0),
     CodesTape(maxAttempts + 1, <<23, 24, 25>>, 9)}

\* sessions draw XYZ, or ABC and then XYZ; the keys draw from every tape
CodesCreate ==
    \E id \in CodesIds,
       tape \in {CodesTape(0, <<23, 24, 25>>, 0), CodesTape(1, <<23, 24, 25>>, 0)} :
        createSession(CodesBody(id), id, "u1", tape)
CodesIssue ==
    issueValidationKey(
        [sessionId |-> 1, key |-> <<"A", "B", "C">>, pilotName |-> <<"b">>])
CodesKey == \E tape \in CodesTapes : getUniqueKey(tape)
CodesParticipant ==
    \E r \in {<<0, 0, 0>>, <<25, 25, 25>>} : createParticipant(1, 1, r)
\* the caller of generate/unique posts the key it was given, for another pilot
CodesIssueGenerated ==
    /\ resp.op = "getUniqueKey"
    /\ issueValidationKey(
           [sessionId |-> 1, key |-> resp.generated.code, pilotName |-> <<"c">>])

NextCodes ==
    \/ CodesCreate
    \/ CodesIssue
    \/ CodesKey
    \/ CodesParticipant
    \/ CodesIssueGenerated

SpecCodes == Init({0}, ParseUTC(<<2024, 6, 1>>, <<7, 0>>)) /\ [][NextCodes]_vars

----------------------------------------------------------------------------
(* Session codes over the months: sessions are created on 2024-06-01, 59   *)
(* days, 60 days and 60 days and a minute later, with tapes that draw the  *)
(* same code first.                                                        *)

RecencyClock ==
    {ParseUTC(<<2024, 6, 1>>, <<7, 0>>), ParseUTC(<<2024, 7, 30>>, <<7, 0>>),
     ParseUTC(<<2024, 7, 31>>, <<7, 0>>), ParseUTC(<<2024, 7, 31>>, <<7, 1>>)}

\* one schedule for each session id, each on a day of its own
RecencyBody(id) ==
    [date |-> <<2024, 9, id>>, registrationStartTime |-> <<6, 0>>,
     startTime |-> <<10, 0>>]

\* ABC and then XYZ, ABC and then ABD, ABC every time
RecencyTapes ==
    {CodesTape(1, <<23, 24, 25>>, 0), CodesTape(1, <<0, 1, 3>>, 0),
     CodesTape(0, <<0, 1, 2>>, 7)}

RecencyTick == \E t \in RecencyClock : Tick(t)
\* the tape that draws ABC every time is that of the second id
RecencyCreate ==
    \E id \in SessionIds, tape \in RecencyTapes :
        /\ tape.headLen = 0 => id = 2
        /\ createSession(RecencyBody(id), id, "u1", tape)

NextRecency ==
    \/ RecencyTick
    \/ RecencyCreate

SpecRecency ==
    Init({0}, ParseUTC(<<2024, 6, 1>>, <<7, 0>>)) /\ [][NextRecency]_vars

----------------------------------------------------------------------------
(* The zones: one store served by a process whose local zone is UTC or     *)
(* UTC+3 and changes when it is restarted, with registrations, listings    *)
(* and creations before, in and after the registration window.             *)

ZonesDate == <<2024, 6, 1>>

ZonesBodies ==
    {[date |-> ZonesDate, registrationStartTime |-> <<8, 0>>,
      startTime |-> <<10, 0>>],
     [date |-> ZonesDate, registrationStartTime |-> <<8, 0>>,
      startTime |-> <<11, 0>>, endTime |-> <<13, 0>>, closingMinutes |-> 30]}

ZonesClock ==
    {ParseUTC(ZonesDate, t) : t \in {<<4, 0>>, <<5, 30>>, <<8, 30>>, <<9, 30>>}}

ZonesTick == \E t \in ZonesClock : Tick(t)
ZonesMigrate == \E z \in TimeZones : Migrate(z)
ZonesCreate ==
    /\ now \in {ParseUTC(ZonesDate, <<4, 0>>), ParseUTC(ZonesDate, <<8, 30>>)}
    /\ \E body \in ZonesBodies, id \in SessionIds :
          createSession(body, id, "u1", IdTape(id))
ZonesList == listSessions("all")
ZonesParticipant ==
    \E sessionId \in SessionIds, id \in ParticipantIds :
        createParticipant(sessionId, id, <<15, 0, id>>)

NextZones ==
    \/ ZonesTick
    \/ ZonesMigrate
    \/ ZonesCreate
    \/ ZonesList
    \/ ZonesParticipant

SpecZones == Init(TimeZones, ParseUTC(ZonesDate, <<4, 0>>)) /\ [][NextZones]_vars

----------------------------------------------------------------------------
(* Keys issued by requests that are served at the same time: one session,  *)
(* two keys and two pilots, in November and in December.                   *)

MaxRequests == 2

IssuingBodies ==
    {[sessionId |-> 1, key |-> <<"A", "B", "C">>, pilotName |-> <<"b">>],
     [sessionId |-> 1, key |-> <<"A", "B", "C">>, pilotName |-> <<"c">>],
     [sessionId |-> 1, key |-> <<"X", "Y", "Z">>, pilotName |-> <<"b">>]}

IssuingTick ==
    \E t \in {ParseUTC(<<2024, 11, 15>>, <<12, 0>>),
              ParseUTC(<<2024, 12, 15>>, <<12, 0>>)} : Tick(t)
IssuingCreate ==
    /\ now = ParseUTC(<<2024, 11, 15>>, <<12, 0>>)
    /\ createSession(KeysBody(1), 1, "u1", IdTape(1))
IssuingBegin == \E rid \in 1 .. MaxRequests, body \in IssuingBodies : issueBegin(rid, body)
IssuingProbe == \E rid \in 1 .. MaxRequests : issueProbe(rid)
IssuingLookup == \E rid \in 1 .. MaxRequests : issueLookup(rid)
IssuingPersist == \E rid \in 1 .. MaxRequests : issuePersist(rid)

NextIssuing ==
    \/ IssuingTick
    \/ IssuingCreate
    \/ IssuingBegin
    \/ IssuingProbe
    \/ IssuingLookup
    \/ IssuingPersist

SpecIssuing ==
    Init({0}, ParseUTC(<<2024, 11, 15>>, <<12, 0>>)) /\ [][NextIssuing]_vars

----------------------------------------------------------------------------
(* Sessions created by requests that are served at the same time: three    *)
(* schedules of one date, two of which overlap.                            *)

CreatingBegin ==
    \E rid \in 1 .. MaxRequests, id \in SessionIds, userId \in Users,
       body \in {OverlapBody(<<2024, 6, 1>>, <<9, 0>>, <<11, 0>>),
                 OverlapBody(<<2024, 6, 1>>, <<10, 30>>, <<12, 0>>),
                 OverlapBody(<<2024, 6, 1>>, <<11, 0>>, NoValue)} :
        createBegin(rid, body, id, userId, IdTape(id))
CreatingPersist == \E rid \in 1 .. MaxRequests : createPersist(rid)

NextCreating ==
    \/ CreatingBegin
    \/ CreatingPersist

SpecCreating ==
    Init({0}, ParseUTC(<<2024, 5, 31>>, <<12, 0>>)) /\ [][NextCreating]_vars

----------------------------------------------------------------------------
(* Registrations, status patches and deletions served at the same time,    *)
(* for one session, inside its registration window.                        *)

OrphansCreate ==
    createSession(
        [date |-> StoreDate, registrationStartTime |-> <<8, 0>>,
         startTime |-> <<10, 0>>],
        1, "u1", IdTape(1))
OrphansUpdate == \E status \in {"open", "completed"} : updateSession(1, [status |-> status])
OrphansParticipant ==
    \E rid \in 1 .. MaxRequests, id \in ParticipantIds :
        participantBegin(rid, 1, id, <<15, 0, id>>)
OrphansPersist == \E rid \in 1 .. MaxRequests : participantPersist(rid)
OrphansDelete == \E rid \in 1 .. MaxRequests : deleteBegin(rid, 1)
OrphansDeleteMany == \E rid \in 1 .. MaxRequests : deleteMany(rid)
OrphansDeleteOne == \E rid \in 1 .. MaxRequests : deleteOne(rid)

NextOrphans ==
    \/ OrphansCreate
    \/ OrphansUpdate
    \/ OrphansParticipant
    \/ OrphansPersist
    \/ OrphansDelete
    \/ OrphansDeleteMany
    \/ OrphansDeleteOne

SpecOrphans == Init({0}, ParseUTC(StoreDate, <<8, 45>>)) /\ [][NextOrphans]_vars

----------------------------------------------------------------------------
(* The schedule as the specification reads it.                             *)

StartOf(s) == ParseUTC(s.date, s.startTime)
RegistrationOf(s) == ParseUTC(s.date, s.registrationStartTime)
EndOf(s) ==
    IF s.endTime = NoValue THEN StartOf(s) + 120 ELSE ParseUTC(s.date, s.endTime)
ClosingOf(s) == StartOf(s) - s.closingMinutes

\* the sessions whose status the handler that just answered has computed at `now`
Computed ==
    IF \/ resp.op = "createSession" /\ resp.status = 201
       \/ resp.op \in {"listSessions", "getUpcomingSessions"}
    THEN resp.sessions
    ELSE {}

\* C1: at or after its end (endTime, or start + 2 h) a session's computed
\* status is completed, whatever its other fields, also when the end lies
\* before the start.
C1_CompletedAfterEnd ==
    \A s \in Computed : now >= EndOf(s) => s.status = "completed"

C1_Witness ==
    \E s \in Computed :
        /\ resp.op = "listSessions"
        /\ EndOf(s) < StartOf(s)
        /\ EndOf(s) <= now /\ now < StartOf(s)
        /\ s.status = "completed"

\* C2: from the start on and before the end the computed status is closed.
C2_ClosedFromStart ==
    \A s \in Computed :
        (StartOf(s) <= now /\ now < EndOf(s)) => s.status = "closed"

C2_Witness ==
    \E s \in Computed :
        /\ now = StartOf(s) /\ now < EndOf(s)
        /\ now >= RegistrationOf(s)
        /\ s.closingMinutes = 0
        /\ s.status = "closed"

\* C3: once registration has opened and before the start (and the end), the
\* computed status is closing exactly when 0 < closingTime - now <= 30
\* minutes and open otherwise; so it is open from the closing time on.
C3_ClosingBand ==
    \A s \in Computed :
        (RegistrationOf(s) <= now /\ now < StartOf(s) /\ now < EndOf(s)) =>
            IF 0 < ClosingOf(s) - now /\ ClosingOf(s) - now <= 30
            THEN s.status = "closing"
            ELSE s.status = "open"

C3_Witness ==
    \E s \in Computed :
        /\ RegistrationOf(s) <= now /\ now < StartOf(s) /\ now < EndOf(s)
        /\ ClosingOf(s) - now = 30
        /\ s.status = "closing"

C3_WitnessOpenAfterClosing ==
    \E s \in Computed :
        /\ s.startTime = <<10, 0>> /\ s.closingMinutes = 60
        /\ now = ParseUTC(s.date, <<9, 45>>)
        /\ RegistrationOf(s) <= now /\ now < EndOf(s)
        /\ s.status = "open"

StatusRank(status) ==
    CASE status = "open" -> 0
      [] status = "closing" -> 1
      [] status = "closed" -> 2
      [] status = "completed" -> 3

\* C4: as the clock advances, the computed status of a session never moves
\* back along open -> closing -> closed -> completed.
C4_StatusNeverMovesBack ==
    [][\A s \in sessions : \A t \in sessions' :
          s.id = t.id =>
              StatusRank(calculateSessionStatus(s, now))
                  <= StatusRank(calculateSessionStatus(t, now'))]_vars

\* the half-open intervals [start, end) of a stored session and a candidate
\* intersect, a missing end being start + 2 h
Intersect(s, body) ==
    LET startA == ParseUTC(s.date, s.startTime)
        endA == IF s.endTime = NoValue THEN startA + 120
                ELSE ParseUTC(s.date, s.endTime)
        startB == ParseUTC(body.date, body.startTime)
        endB == IF "endTime" \in DOMAIN body
                THEN ParseUTC(body.date, body.endTime) ELSE startB + 120
    IN  (IF startA >= startB THEN startA ELSE startB)
            < (IF endA <= endB THEN endA ELSE endB)

\* the response of a createSession whose body passed validation
Created == resp.op = "createSession" /\ resp.error # "Validation error"

\* the stored sessions createSession found: the store without the new document
StoredBefore == IF resp.status = 201 THEN sessions \ resp.sessions ELSE sessions

\* C5: createSession answers with a conflict exactly when a stored session of
\* the same date, whoever created it, intersects the candidate [start, end);
\* intervals that only touch are accepted.
C5_ConflictIffOverlap ==
    Created =>
        LET body == resp.req.body
            hit == {s \in StoredBefore : s.date = body.date /\ Intersect(s, body)}
        IN  /\ (resp.status = 400 /\ resp.error = "Conflict") <=> hit # {}
            /\ resp.error = "Conflict" => resp.sessions \subseteq hit
            /\ (hit = {} /\ \A s \in StoredBefore : s.id # resp.req.id) =>
                  /\ resp.status = 201
                  /\ \E s \in sessions :
                        /\ resp.sessions = {s}
                        /\ s.id = resp.req.id
                        /\ s.createdById = resp.req.userId
                        /\ ~(s \in StoredBefore)

\* a candidate at 10:30 without an end is refused against the stored 10:00
\* session without an end, created by another dispatcher, while the store
\* also holds a session of that date that only touches it, at 12:00
C5_Witness ==
    /\ resp.op = "createSession" /\ resp.error = "Conflict"
    /\ resp.req.body.startTime = <<10, 30>>
    /\ ~("endTime" \in DOMAIN resp.req.body)
    /\ \E a \in resp.sessions, b \in sessions :
          /\ a.startTime = <<10, 0>> /\ a.endTime = NoValue
          /\ a.createdById # resp.req.userId
          /\ b.date = a.date
          /\ b.startTime = <<9, 0>> /\ b.endTime = <<10, 0>>

\* the response of a listing
Listed == resp.op \in {"listSessions", "getUpcomingSessions"}

\* C6: no session in the result of getUpcomingSessions has the status
\* completed.
C6_UpcomingNotCompleted ==
    resp.op = "getUpcomingSessions" =>
        \A s \in resp.sessions : s.status # "completed"

\* C7: every session a listing returns at `now` is stored with the status
\* computed for it at `now`, whatever was stored before.
C7_ListedStatusIsCurrent ==
    Listed =>
        \A s \in resp.sessions :
            /\ s \in sessions
            /\ \A t \in sessions :
                  t.id = s.id => t.status = calculateSessionStatus(t, now)

\* the listing of the completed sessions returned one that is open again:
\* its stored status had been set by hand
C7_Witness ==
    /\ resp.op = "listSessions" /\ resp.req = "completed"
    /\ \E s \in resp.sessions : s.status = "open" /\ s \in sessions

\* C8: deleteSession removes a session only when its stored status is
\* completed; it answers not-found for an unknown id and invalid-state for
\* any other stored status, and then sessions, participants and keys stay
\* as they were.
C8_DeleteOnlyCompleted ==
    [][resp'.op = "deleteSession" =>
          LET found == {s \in sessions : s.id = resp'.req}
          IN  /\ found = {} =>
                    /\ resp'.status = 404 /\ resp'.error = "NotFound"
                    /\ UNCHANGED <<sessions, participants, validKeys>>
              /\ (\E s \in found : s.status # "completed") =>
                    /\ resp'.status = 400 /\ resp'.error = "InvalidState"
                    /\ UNCHANGED <<sessions, participants, validKeys>>
              /\ sessions' # sessions =>
                    /\ resp'.status = 200
                    /\ \A s \in found : s.status = "completed"]_vars

\* a deletion was refused for a session that is stored as closed and has a
\* participant and a key
C8_Witness ==
    /\ resp.op = "deleteSession" /\ resp.status = 400
    /\ \E s \in sessions : s.id = resp.req /\ s.status = "closed"
    /\ \E p \in participants : p.sessionId = resp.req
    /\ \E k \in validKeys : k.sessionId = resp.req

\* C9: a successful deleteSession removes the session and exactly its
\* participants; the other sessions, the participants of other sessions and
\* every key, also those of the deleted session, stay.
C9_DeleteFrame ==
    [][(resp'.op = "deleteSession" /\ resp'.status = 200) =>
          /\ sessions' = {s \in sessions : s.id # resp'.req}
          /\ sessions' # sessions
          /\ participants' = {p \in participants : p.sessionId # resp'.req}
          /\ validKeys' = validKeys]_vars

\* a session was deleted whose key is still stored, next to another session
\* that kept its participant
C9_Witness ==
    /\ resp.op = "deleteSession" /\ resp.status = 200
    /\ \A s \in sessions : s.id # resp.req
    /\ \E k \in validKeys : k.sessionId = resp.req
    /\ \E s \in sessions : \E p \in participants : p.sessionId = s.id

MonthIndex(month) == 12 * month[1] + month[2]

EqualOrAdjacent(m1, m2) ==
    MonthIndex(m1) - MonthIndex(m2) \in {-1, 0, 1}

\* the month tags of the instant `now`, read off the calendar
MonthNow ==
    CHOOSE ym \in (2024 .. 2025) \X (1 .. 12) :
        /\ ParseUTC(<<ym[1], ym[2], 1>>, <<0, 0>>) <= now + tz
        /\ now + tz < ParseUTC(<<ym[1], ym[2], DaysInMonth(ym[1], ym[2])>>, <<23, 59>>) + 1

\* C10: no two stored keys have the same value and equal or adjacent month
\* tags; a request for a value stored under the current or the previous
\* month, for whatever session, is refused as a duplicate key, and a refused
\* request stores nothing.
C10_KeyUniqueInTwoMonths ==
    /\ [](\A k1 \in validKeys, k2 \in validKeys :
              (k1 # k2 /\ k1.key = k2.key) => ~EqualOrAdjacent(k1.month, k2.month))
    /\ [][resp'.op = "issueValidationKey" =>
            /\ (/\ resp'.error # "Validation error"
                /\ \E s \in sessions : s.id = resp'.req.sessionId
                /\ \E k \in validKeys :
                      /\ k.key = resp'.req.key
                      /\ MonthIndex(MonthNow) - MonthIndex(k.month) \in {0, 1})
                  => (resp'.status = 400 /\ resp'.error = "Key already exists")
            /\ resp'.status # 201 => validKeys' = validKeys]_vars

\* a key is refused as a duplicate in January 2025 because of a record of
\* December 2024 that belongs to another session
C10_Witness ==
    /\ resp.op = "issueValidationKey" /\ resp.error = "Key already exists"
    /\ MonthNow = <<2025, 1>>
    /\ \A k \in validKeys : k.key = resp.req.key => k.month # <<2025, 1>>
    /\ \E k \in validKeys :
          /\ k.key = resp.req.key /\ k.month = <<2024, 12>>
          /\ k.sessionId # resp.req.sessionId

\* the two-month window of the instant `now`
InWindow(month) == MonthIndex(MonthNow) - MonthIndex(month) \in {0, 1}

HasGenerated == "generated" \in DOMAIN resp

\* C12: when every probe answers not unique, the generator probes exactly
\* maxAttempts times and returns a fallback of three letters and a digit.
C12_ProbesWhenNeverUnique ==
    (HasGenerated /\ ~resp.generated.accepted) =>
        /\ resp.generated.probes = maxAttempts
        /\ resp.generated.fallback
        /\ Len(resp.generated.code) = 4

\* C13: a candidate the probe accepts is the value returned, and the
\* fallback is returned only when no probe accepted.
C13_AcceptedIsReturned ==
    HasGenerated =>
        /\ resp.generated.accepted =>
              /\ resp.generated.code = resp.generated.last
              /\ ~resp.generated.fallback
        /\ resp.generated.fallback => ~resp.generated.accepted

AtoZ ==
    {"A", "B", "C", "D", "E", "F", "G", "H", "I", "J", "K", "L", "M",
     "N", "O", "P", "Q", "R", "S", "T", "U", "V", "W", "X", "Y", "Z"}

ZeroToNine == {"0", "1", "2", "3", "4", "5", "6", "7", "8", "9"}

ThreeLetterCode(c) == Len(c) = 3 /\ \A i \in 1 .. 3 : c[i] \in AtoZ

FallbackCode(c) ==
    Len(c) = 4 /\ (\A i \in 1 .. 3 : c[i] \in AtoZ) /\ c[4] \in ZeroToNine

\* C14: a generated code is three letters A-Z, or on the fallback path (and
\* only there) three letters A-Z and one decimal digit; so are the session
\* codes and personal codes that were stored.
C14_CodeShapes ==
    /\ HasGenerated =>
          IF resp.generated.fallback
          THEN FallbackCode(resp.generated.code)
          ELSE ThreeLetterCode(resp.generated.code)
    /\ \A s \in sessions : ThreeLetterCode(s.sessionCode)
    /\ \A p \in participants : ThreeLetterCode(p.code)

\* the key generator fell back to XYZ9 while a participant holds ZZZ
C14_Witness ==
    /\ resp.op = "getUniqueKey"
    /\ resp.generated.fallback
    /\ resp.generated.code = <<"X", "Y", "Z", "9">>
    /\ \E p \in participants : p.code = <<"Z", "Z", "Z">>

\* the status of section 4.2 for the schedule of s at the instant t
StatusBySchedule(s, t) ==
    IF t >= EndOf(s) THEN "completed"
    ELSE IF t >= StartOf(s) THEN "closed"
    ELSE IF t < RegistrationOf(s) THEN "open"
    ELSE IF 0 < ClosingOf(s) - t /\ ClosingOf(s) - t <= 30 THEN "closing"
    ELSE "open"

\* the session createSession has just stored and returned
CreatedSessions ==
    IF resp.op = "createSession" /\ resp.status = 201 THEN resp.sessions ELSE {}

C16_StoredStatusAfterListing ==
    Listed => \A t \in sessions : t.status = StatusBySchedule(t, now)

\* C16 as amended: for a session the listing returns, the status stored
\* after the listing is the one the listing would store had any other status
\* been stored before; a session a filtered listing does not return keeps
\* its stored status.
C16_ListedStatusIgnoresStored ==
    [][resp'.op \in {"listSessions", "getUpcomingSessions"} =>
          \A s \in sessions :
              IF \E r \in resp'.sessions : r.id = s.id
              THEN \A before \in Statuses : \A t \in sessions' :
                      t.id = s.id =>
                          t.status = refreshed([s EXCEPT !.status = before]).status
              ELSE s \in sessions']_vars

\* the listing of the open sessions returned one as completed
C16_Witness ==
    /\ resp.op = "listSessions" /\ resp.req = "open"
    /\ \E s \in resp.sessions : s.status = "completed" /\ s \in sessions

\* C17: createParticipant stores a participant only when the session exists
\* and registrationStartTime <= now < closingTime; a request for an unknown
\* session, before the registration start or at or after the closing time is
\* refused and leaves the participants as they were.
C17_RegistrationWindow ==
    [][resp'.op = "createParticipant" =>
          LET found == {s \in sessions : s.id = resp'.req.sessionId}
              inWindow == \E s \in found :
                              RegistrationOf(s) <= now /\ now < ClosingOf(s)
          IN  /\ participants' # participants => inWindow
              /\ ~inWindow =>
                    /\ resp'.status \in {400, 404}
                    /\ participants' = participants]_vars

\* C18: for the same stored schedule and the same instant the outcome of a
\* request does not depend on the local zone of the process: a request that
\* changed nothing, repeated at the same instant, gets the same answer,
\* whether or not the process has moved to another zone in between.
C18_ZoneIndependent ==
    [][(/\ resp.op \in {"createParticipant", "createSession", "listSessions"}
        /\ resp'.op = resp.op
        /\ resp'.req = resp.req
        /\ resp.status # 201) =>
          /\ resp'.status = resp.status
          /\ resp'.error = resp.error
          /\ resp.op = "listSessions" => resp'.sessions = resp.sessions]_vars

\* the session numbers the stored sessions carried before the creation
NumbersBefore ==
    {s.sessionNumber : s \in {o \in StoredBefore : "sessionNumber" \in DOMAIN o}}

\* C19: a new session is stored with the number max(stored numbers) + 1, or
\* 1 when no stored session has a number, and every stored session carries
\* a number, so that consecutive creations get consecutive numbers.
C19_SequentialNumbers ==
    /\ \A s \in sessions : "sessionNumber" \in DOMAIN s
    /\ \A d \in CreatedSessions :
          IF NumbersBefore = {} THEN d.sessionNumber = 1
          ELSE \E n \in NumbersBefore :
                  /\ \A m \in NumbersBefore : m <= n
                  /\ d.sessionNumber = n + 1

SixtyDays == 60 * 24 * 60

\* C20: a createSession whose code is carried only by sessions created more
\* than 60 days before `now` keeps that code and stores the new session
\* (when its schedule is valid and free and its id is new).
C20_OldCodeIsFree ==
    (/\ resp.op = "createSession"
     /\ HasGenerated
     /\ resp.error # "Conflict"
     /\ \A s \in sessions : s.id = resp.req.id => s \in resp.sessions
     /\ \E s \in sessions :
           s.sessionCode = resp.generated.last /\ ~(s \in resp.sessions)
     /\ \A s \in sessions :
           (s.sessionCode = resp.generated.last /\ ~(s \in resp.sessions)) =>
               s.createdAt < now - SixtyDays) =>
        /\ resp.status = 201
        /\ \E d \in resp.sessions :
              d \in sessions /\ d.sessionCode = resp.generated.last

----------------------------------------------------------------------------
(* Generated keys, write-on-change and convergence of the listings.        *)

\* C21: a key that generate/unique returned, the fallback of three letters
\* and a digit included, is stored by issueValidationKey when the session
\* exists, no key of that value is stored under the current or the previous
\* month and the pilot has no key for the session.
C21_GeneratedKeyIsStorable ==
    [][(/\ resp.op = "getUniqueKey"
        /\ resp'.op = "issueValidationKey"
        /\ resp'.req.key = resp.generated.code
        /\ \E s \in sessions : s.id = resp'.req.sessionId
        /\ ~\E k \in validKeys : k.key = resp'.req.key /\ InWindow(k.month)
        /\ ~\E k \in validKeys :
               /\ k.sessionId = resp'.req.sessionId
               /\ k.pilotName = resp'.req.pilotName
               /\ InWindow(k.month))
       => /\ resp'.status = 201
          /\ \E k \in validKeys' \ validKeys : k.key = resp'.req.key]_vars

C23_CompletedAfterEnd ==
    [][/\ (\/ resp'.op = "getUpcomingSessions"
           \/ resp'.op = "listSessions" /\ resp'.req \in {"", "all"}) =>
             \A t \in sessions' : now >= EndOf(t) => t.status = "completed"
       /\ resp'.op \in {"listSessions", "getUpcomingSessions"} =>
             \A s \in sessions :
                 (s.status = "completed" /\ now >= EndOf(s)) => s \in sessions']_vars

\* getUpcomingSessions found a session after its end and saved it as
\* completed, while another session is stored as completed
C23_Witness ==
    /\ resp.op = "getUpcomingSessions"
    /\ \E s \in resp.sessions :
          /\ s.id \in resp.saved
          /\ s \in sessions /\ s.status = "completed" /\ now >= EndOf(s)
    /\ \E t \in sessions \ resp.sessions : t.status = "completed"

----------------------------------------------------------------------------
(* Sessions of one date, deletions and session codes.                      *)

\* C25: when sessions are created one request after the other, no two
\* stored sessions of the same date have intersecting intervals [start, end).
C25_NoStoredOverlap ==
    \A a \in sessions, b \in sessions :
        (a # b /\ a.date = b.date) =>
            ~(Max(StartOf(a), StartOf(b)) < Min(EndOf(a), EndOf(b)))

\* two sessions of one date are stored: the first ends where the second,
\* created by another dispatcher and without an end of its own, starts
C25_Witness ==
    /\ Cardinality(sessions) = 2
    /\ \E a \in sessions, b \in sessions :
          /\ a.date = b.date /\ a.createdById # b.createdById
          /\ EndOf(a) = StartOf(b)
          /\ a.endTime # NoValue /\ b.endTime = NoValue

\* C29 as stated: each successful deleteSession happens at an instant at
\* which the status computed for the session is completed, whatever
\* updateSession has patched.
C29_DeletedAfterEnd ==
    [][(resp'.op = "deleteSession" /\ resp'.status = 200) =>
          \A s \in sessions :
              s.id = resp'.req => StatusBySchedule(s, now) = "completed"]_vars

\* C29 as amended: each successful deleteSession removes a session whose
\* stored status is completed; createSession and the listings store that
\* status only at or after the end of the session, so a session deleted
\* before its end has had its status patched by updateSession.
C29_DeletedStoredCompleted ==
    [][/\ (resp'.op = "deleteSession" /\ resp'.status = 200) =>
             /\ \E s \in sessions : s.id = resp'.req /\ s.status = "completed"
             /\ ~\E t \in sessions' : t.id = resp'.req
       /\ resp'.op \in {"createSession", "listSessions", "getUpcomingSessions"} =>
             \A t \in sessions' \ sessions :
                 t.status = "completed" => now >= EndOf(t)
       /\ resp'.op \notin {"createSession", "listSessions", "getUpcomingSessions",
                           "updateSession"} =>
             \A t \in sessions' : t \in sessions]_vars

\* a session is deleted at 08:00, two hours before its start
C29_Witness ==
    /\ resp.op = "deleteSession" /\ resp.status = 200
    /\ sessions = {}
    /\ now = ParseUTC(StatusDate, <<8, 0>>)

\* C30: every stored session has a code of exactly three letters A-Z and no
\* two stored sessions have the same code; a createSession without a
\* schedule conflict whose generator returned the four-character fallback
\* or the code of a stored session ends with a generic failure and leaves
\* the sessions as they were.
C30_StoredCodes ==
    [][/\ \A s \in sessions' : ThreeLetterCode(s.sessionCode)
       /\ \A a \in sessions', b \in sessions' :
             a.sessionCode = b.sessionCode => a = b
       /\ (/\ resp'.op = "createSession"
           /\ "generated" \in DOMAIN resp'
           /\ resp'.error # "Conflict"
           /\ \/ resp'.generated.fallback
              \/ \E s \in sessions : s.sessionCode = resp'.generated.code)
          => /\ resp'.status = 500 /\ resp'.error = "Failure"
             /\ UNCHANGED sessions]_vars

\* a creation ended with a failure on the code of the one session stored,
\* which was created more than sixty days before
C30_Witness ==
    /\ resp.op = "createSession" /\ resp.status = 500
    /\ ~resp.generated.fallback
    /\ \E s \in sessions :
          s.sessionCode = resp.generated.code /\ s.createdAt < now - SixtyDays
    /\ Cardinality(sessions) = 1

----------------------------------------------------------------------------
(* Requests served at the same time.                                       *)

\* the requests of issueValidationKey that wait past the uniqueness probe
PastProbe ==
    {r \in DOMAIN pending :
        /\ pending[r].op = "issueValidationKey"
        /\ pending[r].pc \in {"findPilot", "save"}}

\* C24: the uniqueness probe of issueValidationKey reserves nothing: its
\* answer depends on the stored keys alone, so a request passes it while
\* another request for the same key has passed it and not yet persisted.
C24_ProbeReadsTheStoreOnly ==
    [][\A r \in DOMAIN pending :
          (/\ pending[r].op = "issueValidationKey"
           /\ pending[r].pc = "isKeyUnique"
           /\ r \in DOMAIN pending' => pending'[r].pc # "isKeyUnique")
          => (r \in PastProbe'
                <=> ~\E k \in validKeys :
                        /\ k.key = pending[r].req.key
                        /\ k.month \in pending[r].locals.months)]_vars

\* two requests for the key ABC, of two pilots, have both passed the probe
\* and neither has persisted: no key is stored
C24_Witness ==
    /\ validKeys = {}
    /\ \E r1 \in PastProbe, r2 \in PastProbe :
          /\ r1 # r2
          /\ pending[r1].req.key = <<"A", "B", "C">>
          /\ pending[r2].req.key = <<"A", "B", "C">>
          /\ pending[r1].req.pilotName # pending[r2].req.pilotName

\* C27: whatever the interleaving of the issueValidationKey requests, no two
\* stored keys have the same value and month: a save that meets a stored key
\* of its value and month is refused by the unique index, the request ends
\* with a generic failure and the keys stay as they were.
C27_UniqueKeyPerMonth ==
    [][/\ \A k1 \in validKeys', k2 \in validKeys' :
             (k1.key = k2.key /\ k1.month = k2.month) => k1 = k2
       /\ \A r \in DOMAIN pending :
             (/\ pending[r].op = "issueValidationKey"
              /\ pending[r].pc = "save"
              /\ r \notin DOMAIN pending'
              /\ \E k \in validKeys :
                    /\ k.key = pending[r].locals.validKey.key
                    /\ k.month = pending[r].locals.validKey.month)
             => /\ resp'.op = "issueValidationKey"
                /\ resp'.status = 500 /\ resp'.error = "Failure"
                /\ UNCHANGED validKeys]_vars

\* a request for the key ABC has just ended with a failure: the key is
\* stored, for another pilot, and both had passed the probe
C27_Witness ==
    /\ resp.op = "issueValidationKey" /\ resp.status = 500
    /\ resp.req.key = <<"A", "B", "C">>
    /\ \E k \in validKeys :
          k.key = resp.req.key /\ k.pilotName # resp.req.pilotName

\* C26: whatever the interleaving of the createSession requests, no two
\* stored sessions of the same date have intersecting intervals [start, end).
C26_NoOverlapUnderRaces ==
    \A a \in sessions, b \in sessions :
        (a.id # b.id /\ a.date = b.date) =>
            \/ StartOf(a) >= EndOf(b)
            \/ StartOf(b) >= EndOf(a)
            \/ StartOf(a) >= EndOf(a)
            \/ StartOf(b) >= EndOf(b)

\* C28: whatever the interleaving of createParticipant, updateSession and
\* deleteSession, the session of every stored participant is stored.
C28_ParticipantsHaveSessions ==
    \A p \in participants : \E s \in sessions : s.id = p.sessionId

============================================================================
